---- MODULE Spec2Model ----
(***************************************************************************)
(* visualize_evolution.py: two linear pipelines that turn a directory of   *)
(* network snapshots (.out files) into an animated GIF.                    *)
(*   visualize_network_evolution : discovery, stride sampling, render loop,*)
(*                                 save                                    *)
(*   create_comparison_gif       : discovery, even sampling (np.linspace), *)
(*                                 render loop with statistics, save       *)
(* The state is the file system, the call's arguments, the locals of the   *)
(* running function (network_files, frames, loop position, duration), the  *)
(* set of matplotlib figures that are open, and a few history variables.   *)
(***************************************************************************)
EXTENDS Integers, Sequences, FiniteSets, TLC

\* ----------------------------------------------------------------- bounds
\* snapshots gen1.out .. gen<MaxFiles>.out may exist in the directory
MaxFiles == 4
\* --sample ranges over -1 .. MaxStride
MaxStride == 3
\* --snapshots ranges over -1 .. MaxSnapshots
MaxSnapshots == 4
\* the sampling-only specification uses directories of up to MaxN files
MaxN == 7
\* the frame-rate specification uses --fps in 0 .. MaxFps
MaxFps == 31

\* ------------------------------------------------------ program constants
\* int(1000 / fps): milliseconds in a second
MsPerSecond == 1000
\* loop=0 means infinite loop
LoopForever == 0
\* defaults of the arguments a pipeline does not receive
DefaultSampleEvery == 1
DefaultNumSnapshots == 10
DefaultFps == 2

VARIABLES
    pipeline,       \* "plain" (visualize_network_evolution) or "comparison"
    output_gif,     \* argument: path the animation is saved to
    fps,            \* argument
    sample_every,   \* argument (plain pipeline)
    num_snapshots,  \* argument (comparison pipeline)
    fs,             \* file system: path -> content
    network_files,  \* local: the sorted, then sub-sampled, list of paths
    frames,         \* local: list of images
    i,              \* local: number of loop iterations started
    duration,       \* local: per-frame duration in ms
    pc,             \* position in the function body
    openFigs,       \* matplotlib figures created and not closed
    all_files,      \* history: the sorted list before sampling
    attempted,      \* history: files the loop body was entered for
    raisedIn,       \* history: iterations whose body raised
    writes,         \* history: paths opened for writing
    error           \* history: step an exception propagated from

vars == <<pipeline, output_gif, fps, sample_every, num_snapshots, fs,
          network_files, frames, i, duration, pc, openFigs, all_files,
          attempted, raisedIn, writes, error>>

\* ------------------------------------------------------------ file system
Snapshot(n) == [stem |-> n, ext |-> "out"]

GifPath == [stem |-> 0, ext |-> "gif"]

NoFile == [kind |-> "none", frames |-> <<>>, duration |-> 0, loop |-> 0]

SnapshotContent == [kind |-> "matrix", frames |-> <<>>, duration |-> 0, loop |-> 0]

PartialFile == [kind |-> "partial", frames |-> <<>>, duration |-> 0, loop |-> 0]

GifFile(fr, d, l) == [kind |-> "gif", frames |-> fr, duration |-> d, loop |-> l]

\* extensions PIL can infer an output format from; ".out" is none of them
RegisteredExt == {"gif"}

\* glob.glob(os.path.join(networks_dir, '*.out'))
Glob(files, paths) == {p \in paths : files[p].kind # "none" /\ p.ext = "out"}

\* sorted(...): ascending by file name
RECURSIVE SortedSeq(_)
SortedSeq(S) ==
    IF S = {} THEN <<>>
    ELSE LET m == CHOOSE x \in S : \A y \in S : x.stem <= y.stem
         IN  <<m>> \o SortedSeq(S \ {m})

\* ------------------------------------------------------- pure computations
AllPaths ==
    {Snapshot(n) : n \in 1..(IF MaxN > MaxFiles THEN MaxN ELSE MaxFiles)} \cup {GifPath}

\* a / b rounded to the nearest integer, a tie going to the even neighbour
\* (Python's round and numpy's rint), for a >= 0 and b > 0
RoundDiv(a, b) ==
    LET q == a \div b
        r == a % b
    IN  IF 2 * r < b THEN q
        ELSE IF 2 * r > b THEN q + 1
        ELSE IF q % 2 = 0 THEN q ELSE q + 1

\* (a slip: the slice written seq[1::step], starting at the second file)
StrideSlice_fromSecond(seq, step) ==
    LET n == Len(seq)
    IN  IF n <= 1 \/ step < 0 THEN <<>>
        ELSE [j \in 1..(((n - 2) \div step) + 1) |-> seq[2 + (j - 1) * step]]

\* seq[::step] for step # 0 (a zero step raises ValueError, see StrideSample)
StrideSlice(seq, step) ==
    LET n == Len(seq)
        a == IF step > 0 THEN step ELSE -step
    IN  IF n = 0 THEN <<>>
        ELSE [j \in 1..(((n - 1) \div a) + 1) |->
                IF step > 0 THEN seq[1 + (j - 1) * a] ELSE seq[n - (j - 1) * a]]

\* (a slip: np.linspace(..., endpoint=False), whose step is stop / num)
Linspace_noEndpoint(stop, num) ==
    [j \in 1..num |-> ((j - 1) * stop) \div num]

\* (a slip: the samples rounded to the nearest index, not truncated)
Linspace_rounded(stop, num) ==
    IF num = 0 THEN <<>>
    ELSE IF num = 1 THEN <<0>>
    ELSE [j \in 1..num |-> RoundDiv((j - 1) * stop, num - 1)]

\* np.linspace(0, stop, num, dtype=int) for num >= 0 (num < 0 raises
\* ValueError, see EvenSample): y = arange(0, num) * (stop / (num - 1)), the
\* last sample set to stop, then the conversion to int, which drops the
\* fraction.  The products are exact here; in double precision the first
\* product that falls below its exact integer value is at stop = 30.
Linspace(stop, num) ==
    IF num = 0 THEN <<>>
    ELSE IF num = 1 THEN <<0>>
    ELSE [j \in 1..num |->
            IF j = num THEN stop ELSE ((j - 1) * stop) \div (num - 1)]

\* [network_files[i] for i in indices]
Pick(seq, indices) == [j \in 1..Len(indices) |-> seq[indices[j] + 1]]

\* (a slip: round(1000 / fps) in place of int(1000 / fps))
Duration_rounded(f) == RoundDiv(MsPerSecond, f)

\* int(1000 / fps) for fps > 0 (fps = 0 raises ZeroDivisionError, see
\* ComputeDuration): true division, then truncation
Duration(f) == MsPerSecond \div f

\* Image.fromarray(buf): the bitmap of the figure drawn for network_file
ImageOf(network_file) == network_file

\* ------------------------------------------------------------------- Init
InitWith(dirs, fpsSet, strides, snapshots, outputs) ==
    /\ pipeline \in {"plain", "comparison"}
    /\ output_gif \in outputs
    /\ fps \in fpsSet
    /\ sample_every \in (IF pipeline = "plain" THEN strides ELSE {DefaultSampleEvery})
    /\ num_snapshots \in (IF pipeline = "comparison" THEN snapshots ELSE {DefaultNumSnapshots})
    /\ \E dir \in dirs :
          fs = [p \in AllPaths |-> IF p \in dir THEN SnapshotContent ELSE NoFile]
    /\ network_files = <<>>
    /\ frames = <<>>
    /\ i = 0
    /\ duration = 0
    /\ pc = "discover"
    /\ openFigs = {}
    /\ all_files = <<>>
    /\ attempted = <<>>
    /\ raisedIn = {}
    /\ writes = <<>>
    /\ error = "none"

\* any directory over gen1.out .. gen<MaxFiles>.out; the output path is a
\* .gif, or the path of the snapshot gen1.out
Init ==
    InitWith(SUBSET {Snapshot(n) : n \in 1..MaxFiles},
             {0, DefaultFps, 7},
             (-1)..MaxStride,
             (-1)..MaxSnapshots,
             {GifPath, Snapshot(1)})

\* ------------------------------------------------------------- the steps
\* network_files = sorted(glob.glob(...)); return when there is none
Discover ==
    /\ pc = "discover"
    /\ LET found == SortedSeq(Glob(fs, AllPaths))
       IN  /\ network_files' = found
           /\ all_files' = found
           /\ pc' = IF Len(found) = 0 THEN "done" ELSE "sample"
    /\ UNCHANGED <<pipeline, output_gif, fps, sample_every, num_snapshots, fs,
                   frames, i, duration, openFigs, attempted, raisedIn, writes,
                   error>>

\* network_files = network_files[::sample_every]
StrideSample ==
    /\ pc = "sample"
    /\ pipeline = "plain"
    /\ IF sample_every = 0
       THEN /\ pc' = "raised"
            /\ error' = "sample"
            /\ UNCHANGED network_files
       ELSE /\ network_files' = StrideSlice(network_files, sample_every)
            /\ pc' = "loop"
            /\ UNCHANGED error
    /\ UNCHANGED <<pipeline, output_gif, fps, sample_every, num_snapshots, fs,
                   frames, i, duration, openFigs, all_files, attempted,
                   raisedIn, writes>>

\* if len(network_files) > num_snapshots: indices = np.linspace(...);
\* network_files = [network_files[i] for i in indices]
EvenSample ==
    /\ pc = "sample"
    /\ pipeline = "comparison"
    /\ IF Len(network_files) > num_snapshots
       THEN IF num_snapshots < 0
            THEN /\ pc' = "raised"
                 /\ error' = "sample"
                 /\ UNCHANGED network_files
            ELSE /\ network_files' =
                        Pick(network_files,
                             Linspace(Len(network_files) - 1, num_snapshots))
                 /\ pc' = "loop"
                 /\ UNCHANGED error
       ELSE /\ pc' = "loop"
            /\ UNCHANGED <<network_files, error>>
    /\ UNCHANGED <<pipeline, output_gif, fps, sample_every, num_snapshots, fs,
                   frames, i, duration, openFigs, all_files, attempted,
                   raisedIn, writes>>

\* for i, network_file in enumerate(network_files): the next file, or the
\* end of the loop
ForNext ==
    /\ pc = "loop"
    /\ IF i < Len(network_files)
       THEN /\ i' = i + 1
            /\ attempted' = Append(attempted, network_files[i + 1])
            /\ pc' = IF pipeline = "comparison" THEN "loadtxt" ELSE "viewInd"
       ELSE /\ pc' = "check"
            /\ UNCHANGED <<i, attempted>>
    /\ UNCHANGED <<pipeline, output_gif, fps, sample_every, num_snapshots, fs,
                   network_files, frames, duration, openFigs, all_files,
                   raisedIn, writes, error>>

\* (a slip: break in place of continue)
Except_break ==
    /\ raisedIn' = raisedIn \cup {i}
    /\ pc' = "check"

\* except Exception as e: print(...); continue
Except ==
    /\ raisedIn' = raisedIn \cup {i}
    /\ pc' = "loop"

\* ind = np.loadtxt(network_file, delimiter=','); wMat, counts: succeeds, or
\* raises on a file that is no numeric matrix
Loadtxt ==
    /\ pc = "loadtxt"
    /\ \/ /\ pc' = "viewInd"
          /\ UNCHANGED raisedIn
       \/ Except
    /\ UNCHANGED <<pipeline, output_gif, fps, sample_every, num_snapshots, fs,
                   network_files, frames, i, duration, openFigs, all_files,
                   attempted, writes, error>>

\* fig, ax = nv.viewInd(network_file, task_name): returns a new open figure,
\* or raises
ViewInd ==
    /\ pc = "viewInd"
    /\ \/ /\ openFigs' = openFigs \cup {i}
          /\ pc' = "rasterize"
          /\ UNCHANGED raisedIn
       \/ /\ Except
          /\ UNCHANGED openFigs
    /\ UNCHANGED <<pipeline, output_gif, fps, sample_every, num_snapshots, fs,
                   network_files, frames, i, duration, all_files, attempted,
                   writes, error>>

\* ax.set_title(...); fig.canvas.draw(); get_width_height(); tostring_rgb();
\* reshape; Image.fromarray: each can raise, none closes the figure
Rasterize ==
    /\ pc = "rasterize"
    /\ \/ /\ pc' = "append"
          /\ UNCHANGED raisedIn
       \/ Except
    /\ UNCHANGED <<pipeline, output_gif, fps, sample_every, num_snapshots, fs,
                   network_files, frames, i, duration, openFigs, all_files,
                   attempted, writes, error>>

\* (a slip: frames.insert(0, img) in place of frames.append(img))
AppendClose_insertFront ==
    /\ pc = "append"
    /\ frames' = <<ImageOf(network_files[i])>> \o frames
    /\ openFigs' = openFigs \ {i}
    /\ pc' = "loop"
    /\ UNCHANGED <<pipeline, output_gif, fps, sample_every, num_snapshots, fs,
                   network_files, i, duration, all_files, attempted, raisedIn,
                   writes, error>>

\* frames.append(img); plt.close(fig)
AppendClose ==
    /\ pc = "append"
    /\ frames' = Append(frames, ImageOf(network_files[i]))
    /\ openFigs' = openFigs \ {i}
    /\ pc' = "loop"
    /\ UNCHANGED <<pipeline, output_gif, fps, sample_every, num_snapshots, fs,
                   network_files, i, duration, all_files, attempted, raisedIn,
                   writes, error>>

\* (a slip: the empty-frames return left out)
CheckFrames_noReturn ==
    /\ pc = "check"
    /\ pc' = "duration"
    /\ UNCHANGED <<pipeline, output_gif, fps, sample_every, num_snapshots, fs,
                   network_files, frames, i, duration, openFigs, all_files,
                   attempted, raisedIn, writes, error>>

\* if len(frames) == 0: print(...); return
CheckFrames ==
    /\ pc = "check"
    /\ pc' = IF Len(frames) = 0 THEN "done" ELSE "duration"
    /\ UNCHANGED <<pipeline, output_gif, fps, sample_every, num_snapshots, fs,
                   network_files, frames, i, duration, openFigs, all_files,
                   attempted, raisedIn, writes, error>>

\* duration = int(1000 / fps)
ComputeDuration ==
    /\ pc = "duration"
    /\ IF fps = 0
       THEN /\ pc' = "raised"
            /\ error' = "duration"
            /\ UNCHANGED duration
       ELSE /\ duration' = Duration(fps)
            /\ pc' = "save"
            /\ UNCHANGED error
    /\ UNCHANGED <<pipeline, output_gif, fps, sample_every, num_snapshots, fs,
                   network_files, frames, i, openFigs, all_files, attempted,
                   raisedIn, writes>>

\* (a slip: format='GIF' passed to save, so that any path is written)
Save_explicitFormat ==
    /\ pc = "save"
    /\ writes' = Append(writes, output_gif)
    /\ \/ /\ fs' = [fs EXCEPT ![output_gif] =
                        GifFile(frames, duration, LoopForever)]
          /\ pc' = "done"
          /\ UNCHANGED error
       \/ /\ fs' = [fs EXCEPT ![output_gif] = PartialFile]
          /\ pc' = "raised"
          /\ error' = "save"
    /\ UNCHANGED <<pipeline, output_gif, fps, sample_every, num_snapshots,
                   network_files, frames, i, duration, openFigs, all_files,
                   attempted, raisedIn>>

\* frames[0].save(output_gif, save_all=True, append_images=frames[1:],
\* duration=duration, loop=0).  No format is passed, so PIL infers it from the
\* extension and raises ValueError before it opens the file when the extension
\* names none; otherwise the file is opened for writing and the animation is
\* written, or an I/O error stops the write.
Save ==
    /\ pc = "save"
    /\ IF output_gif.ext \notin RegisteredExt
       THEN /\ pc' = "raised"
            /\ error' = "save"
            /\ UNCHANGED <<fs, writes>>
       ELSE /\ writes' = Append(writes, output_gif)
            /\ \/ /\ fs' = [fs EXCEPT ![output_gif] =
                                GifFile(frames, duration, LoopForever)]
                  /\ pc' = "done"
                  /\ UNCHANGED error
               \/ /\ fs' = [fs EXCEPT ![output_gif] = PartialFile]
                  /\ pc' = "raised"
                  /\ error' = "save"
    /\ UNCHANGED <<pipeline, output_gif, fps, sample_every, num_snapshots,
                   network_files, frames, i, duration, openFigs, all_files,
                   attempted, raisedIn>>

\* ------------------------------------------------------ specifications
\* one call of either function, from its first statement to its return or to
\* the exception that leaves it
Next ==
    \/ Discover
    \/ StrideSample
    \/ EvenSample
    \/ ForNext
    \/ Loadtxt
    \/ ViewInd
    \/ Rasterize
    \/ AppendClose
    \/ CheckFrames
    \/ ComputeDuration
    \/ Save

Spec == Init /\ [][Next]_vars

\* discovery and sampling alone, over every directory of up to MaxN snapshots
InitSample ==
    InitWith(SUBSET {Snapshot(n) : n \in 1..MaxN},
             {DefaultFps},
             (-1)..MaxN,
             (-1)..MaxN,
             {GifPath})

NextSample == Discover \/ StrideSample \/ EvenSample

SpecSample == InitSample /\ [][NextSample]_vars

\* whole runs over one or two snapshots, for every frame rate up to MaxFps
InitFps ==
    InitWith({{Snapshot(n) : n \in 1..k} : k \in 1..2},
             0..MaxFps,
             {DefaultSampleEvery},
             {DefaultNumSnapshots},
             {GifPath})

SpecFps == InitFps /\ [][Next]_vars

\* ------------------------------------------------------------- properties
Range(seq) == {seq[j] : j \in 1..Len(seq)}

\* position of x in a sequence without repetitions
IndexOf(seq, x) == CHOOSE j \in 1..Len(seq) : seq[j] = x

NoRepeats(seq) == \A j, k \in 1..Len(seq) : seq[j] = seq[k] => j = k

\* seq without the entries at the positions in drop, order kept
RECURSIVE KeptFrom(_, _, _)
KeptFrom(seq, drop, j) ==
    IF j > Len(seq) THEN <<>>
    ELSE (IF j \in drop THEN <<>> ELSE <<seq[j]>>) \o KeptFrom(seq, drop, j + 1)

Kept(seq, drop) == KeptFrom(seq, drop, 1)

\* the loop is over: the function is at or past the empty-frames check
LoopOver ==
    /\ pc \in {"check", "duration", "save", "done", "raised"}
    /\ error # "sample"

\* C1: the frames handed to the save step (and the frames of the written
\* animation) are the images of the selected files whose iteration did not
\* raise, one each, in the order of the selected list; there are M >= 1 of
\* them, M = selected - raised, and none for a file whose render raised.
C1_FramesAreSuccessfulFiles ==
    /\ pc = "save" =>
          /\ Len(frames) >= 1
          /\ Len(frames) = Len(network_files) - Cardinality(raisedIn)
          /\ frames = Kept(network_files, raisedIn)
          /\ \A j \in raisedIn : ImageOf(network_files[j]) \notin Range(frames)
    /\ \A p \in AllPaths :
          fs[p].kind = "gif" => fs[p].frames = Kept(network_files, raisedIn)

\* C1 witness: three files selected, the second failed: two frames at save
C1_Witness ==
    /\ pc = "save"
    /\ Len(network_files) = 3
    /\ raisedIn = {2}
    /\ Len(frames) = 2

CeilDiv(a, b) == (a + b - 1) \div b

\* C2: after stride sampling of N >= 1 sorted files with stride S >= 1,
\* ceil(N / S) files are selected, the i-th (from 0) is the sorted file at
\* index i * S, and S = 1 keeps all N files.
C2_StrideSelection ==
    (pipeline = "plain" /\ pc = "loop" /\ sample_every >= 1) =>
        /\ Len(all_files) >= 1
        /\ Len(network_files) = CeilDiv(Len(all_files), sample_every)
        /\ \A k \in 0..(Len(network_files) - 1) :
              /\ k * sample_every + 1 <= Len(all_files)
              /\ network_files[k + 1] = all_files[k * sample_every + 1]
        /\ (sample_every = 1 => network_files = all_files)

\* C2 witness: seven files, stride 3: files 0, 3 and 6 of the sorted list
C2_Witness ==
    /\ pipeline = "plain"
    /\ pc = "loop"
    /\ sample_every = 3
    /\ Len(all_files) = 7
    /\ Len(network_files) = 3

\* the comparison pipeline has sampled N sorted files for a requested K
EvenSampled(N, K) ==
    /\ pipeline = "comparison"
    /\ pc = "loop"
    /\ i = 0
    /\ Len(all_files) = N
    /\ num_snapshots = K

\* C3 as stated: for 1 <= K <= N even sampling selects exactly K files, all
\* distinct, among them the first and the last sorted file.
C3_Original ==
    \A N \in 1..Len(all_files) : \A K \in 1..N :
        EvenSampled(N, K) =>
            /\ Len(network_files) = K
            /\ NoRepeats(network_files)
            /\ all_files[1] \in Range(network_files)
            /\ all_files[N] \in Range(network_files)

\* C3 amended: for 1 <= K <= N even sampling selects exactly K files, all
\* distinct, among them the first sorted file, and the last sorted file too
\* when K >= 2 or N = 1; for K = 1 < N the first file alone is selected.
C3_EvenSelection ==
    \A N \in 1..Len(all_files) : \A K \in 1..N :
        EvenSampled(N, K) =>
            /\ Len(network_files) = K
            /\ NoRepeats(network_files)
            /\ Range(network_files) \subseteq Range(all_files)
            /\ all_files[1] \in Range(network_files)
            /\ (K >= 2 \/ N = 1) => all_files[N] \in Range(network_files)
            /\ (K = 1) => network_files = <<all_files[1]>>

\* C3 witness: six files, three requested: sampling took place
C3_Witness ==
    /\ EvenSampled(6, 3)
    /\ Len(network_files) = 3
    /\ network_files[3] = all_files[6]

\* C8 as stated: for 2 <= K < N the i-th selected index is i*(N-1)/(K-1)
\* rounded to the nearest integer.
C8_Original ==
    \A N \in 1..Len(all_files) : \A K \in 2..(N - 1) :
        EvenSampled(N, K) =>
            \A k \in 0..(K - 1) :
                IndexOf(all_files, network_files[k + 1]) - 1
                    = RoundDiv(k * (N - 1), K - 1)

\* C8 amended: for 2 <= K < N the i-th selected index is i*(N-1)/(K-1)
\* rounded down: the greatest integer x with x*(K-1) <= i*(N-1).
C8_IndexIsFloor ==
    \A N \in 1..Len(all_files) : \A K \in 2..(N - 1) :
        EvenSampled(N, K) =>
            \A k \in 0..(K - 1) :
                LET x == IndexOf(all_files, network_files[k + 1]) - 1
                IN  /\ network_files[k + 1] \in Range(all_files)
                    /\ x * (K - 1) <= k * (N - 1)
                    /\ k * (N - 1) < (x + 1) * (K - 1)

\* C8 witness: six files, four requested: indices 0, 1, 3, 5 (5/3 gives 1)
C8_Witness ==
    /\ EvenSampled(6, 4)
    /\ network_files = <<all_files[1], all_files[2], all_files[4], all_files[6]>>

\* the animation was written at the output path
Written == fs[output_gif].kind = "gif"

\* C4 as stated: the written animation has a frame duration of
\* round(1000 / fps) ms for every positive fps, and loops forever.
C4_Original ==
    Written =>
        /\ fs[output_gif].duration = RoundDiv(1000, fps)
        /\ fs[output_gif].loop = 0

\* C4 amended: the written animation has a frame duration of 1000 / fps with
\* the fraction dropped (the greatest d with d * fps <= 1000), which is
\* round(1000 / fps) for fps in {1, 2, 5, 10, 30}, and loops forever.
C4_DurationIsTruncated ==
    Written =>
        /\ fps >= 1
        /\ fs[output_gif].duration * fps <= 1000
        /\ 1000 < (fs[output_gif].duration + 1) * fps
        /\ fps \in {1, 2, 5, 10, 30} => fs[output_gif].duration = RoundDiv(1000, fps)
        /\ fs[output_gif].loop = 0

\* C4 witness: written at 7 fps with 142 ms a frame (1000 / 7 = 142.86)
C4_Witness ==
    /\ Written
    /\ fps = 7
    /\ fs[output_gif].duration = 142

\* the run is over: returned, or left by an exception
Ended == pc \in {"done", "raised"}

\* every selected file was attempted and every attempt raised
AllRendersFailed ==
    /\ LoopOver
    /\ Len(attempted) = Len(network_files)
    /\ raisedIn = 1..Len(network_files)

\* C5: a run that ends with no frame, because discovery matched no file or
\* because every selected file failed to render, returned normally and never
\* executed the save: no path was opened for writing, no file was changed.
C5_NoFramesNoOutput ==
    (Ended /\ Len(frames) = 0 /\ (Len(all_files) = 0 \/ AllRendersFailed)) =>
        /\ pc = "done"
        /\ error = "none"
        /\ writes = <<>>
        /\ \A p \in AllPaths : fs[p].kind \in {"none", "matrix"}

\* C5 witness: two files selected, both failed, the run returned
C5_Witness ==
    /\ pc = "done"
    /\ Len(network_files) = 2
    /\ raisedIn = {1, 2}
    /\ frames = <<>>

\* C6 as stated: at the start of every iteration, at the end of the loop and
\* at the save step no figure created by the run is open.
C6_FiguresReleased ==
    pc \in {"loop", "check", "duration", "save"} => openFigs = {}

\* C7: every snapshot matched by discovery keeps its content; the only path
\* ever opened for writing is the output path, at most once, and no other
\* path holds written data.
C7_OnlyOutputWritten ==
    /\ \A k \in 1..Len(all_files) : fs[all_files[k]] = SnapshotContent
    /\ Len(writes) <= 1
    /\ \A k \in 1..Len(writes) : writes[k] = output_gif
    /\ \A p \in AllPaths :
          fs[p].kind \in {"gif", "partial"} => (p = output_gif /\ writes = <<p>>)

\* C7 witness: a run over three snapshots has written the animation
C7_Witness ==
    /\ pc = "done"
    /\ Len(all_files) = 3
    /\ writes = <<output_gif>>
    /\ Written

\* C9 as stated: an exception leaves the pipeline from the save step only.
C9_OnlySaveRaises ==
    pc = "raised" => error = "save"

\* C10: once sampling is done, the files attempted so far are the first i
\* selected files, in order and without repetition, and when the loop is over
\* every selected file has been attempted, whatever failed before it.
C10_EachFileAttemptedOnce ==
    (pc \notin {"discover", "sample"} /\ error # "sample") =>
        /\ Len(attempted) = i
        /\ i <= Len(network_files)
        /\ attempted = SubSeq(network_files, 1, i)
        /\ NoRepeats(attempted)
        /\ raisedIn \subseteq 1..i
        /\ LoopOver => attempted = network_files

\* C10 witness: the first of three files failed and the loop still reached
\* its end with all three attempted
C10_Witness ==
    /\ pc = "check"
    /\ 1 \in raisedIn
    /\ Len(attempted) = 3
    /\ Len(frames) = 2

====
